---- MODULE Spec2Model ----
(***************************************************************************)
(* A model of jimgw/prior.py: the prior classes (leaf distributions,       *)
(* SequentialTransformPrior, CombinePrior and the priors derived from      *)
(* them), their sample / log_prob methods and trace_prior_parent.          *)
(*                                                                         *)
(* Python objects live in a heap: `heap` holds the prior objects in the    *)
(* order of their creation (an object's id is its index), `lists` holds    *)
(* the list[str] objects that priors reference as parameter_names (two     *)
(* priors may reference the same list object).  Numbers are symbolic: a    *)
(* value is the random draw or the caller's input it comes from, followed  *)
(* by the elementwise operations applied to it, and a log-density is the   *)
(* sequence of the terms that were added up.                               *)
(***************************************************************************)
EXTENDS Integers, Sequences, FiniteSets, TLC

VARIABLES heap, lists, defaultOutput, last

vars == <<heap, lists, defaultOutput, last>>

(***************************************************************************)
(* Bounds of the model                                                     *)
(***************************************************************************)
MaxPriors == 3
MaxPriorsSmall == 2
MaxSamples == 1
MaxOutput == 2
MaxPriorsTrace == 5
MaxPriorsSine == 4
MaxPriorsSphere == 9

(***************************************************************************)
(* Inputs the callers draw from                                            *)
(***************************************************************************)
Names == {"x", "y"}

SeqsUpTo(S, n) == UNION {[1..k -> S] : k \in 0..n}

\* The lists made of distinct elements of S
ListsOf(S) ==
    {s \in SeqsUpTo(S, Cardinality(S)) : \A i, j \in DOMAIN s : i /= j => s[i] /= s[j]}

\* no name, one name, two names
NameListPool == {<<>>, <<"x">>, <<"y">>, <<"x", "y">>}

Range(s) == {s[i] : i \in DOMAIN s}

NoDuplicates(s) == \A i, j \in DOMAIN s : i /= j => s[i] /= s[j]

(***************************************************************************)
(* jax.random keys.  PRNGKey(seed) is <<seed>>; split(key) gives two new   *)
(* keys, modelled injectively as the key's path extended by 0 and by 1.    *)
(***************************************************************************)
PRNGKey(seed) == <<seed>>

split(key) == <<key \o <<0>>, key \o <<1>>>>

Seeds == {0, 1}

(***************************************************************************)
(* Symbolic values.  A batch drawn from a key is Draw(key, dist, len, col) *)
(* and a value supplied by a caller under the name n is Input(n); Apply    *)
(* appends one elementwise operation.                                      *)
(***************************************************************************)
Draw(key, dist, len, col) ==
    [src |-> [key |-> key, dist |-> dist, len |-> len, col |-> col], ops |-> <<>>]

Input(n) == [src |-> [key |-> <<>>, dist |-> "input:" \o n, len |-> 0, col |-> 0], ops |-> <<>>]

Apply(op, v) == [src |-> v.src, ops |-> Append(v.ops, op)]

Raise == [ok |-> FALSE]

(***************************************************************************)
(* jimgw.transforms (BijectiveTransform and its subclasses)                *)
(***************************************************************************)
Transform(cls, from, to, params) ==
    [cls |-> cls, name_mapping |-> <<from, to>>, params |-> params]

OpTag(t, dir) == [cls |-> t.cls, params |-> t.params, dir |-> dir]

\* The names a transform leaves alone, in order, then the names it produces.
propagate_name(t, x) ==
    LET from == Range(t.name_mapping[1])
        to   == t.name_mapping[2]
        kept == SelectSeq(x, LAMBDA n : n \notin from /\ n \notin Range(to))
    IN  kept \o to

\* forward(x): the input names are consumed, the output names produced; the
\* i-th output is the transform's function of the i-th input.
forward(t, x) ==
    LET from == t.name_mapping[1]
        to   == t.name_mapping[2]
    IN  IF ~(Range(from) \subseteq DOMAIN x) \/ Len(from) /= Len(to)
        THEN Raise
        ELSE [ok |-> TRUE,
              out |-> [n \in (DOMAIN x \ Range(from)) \cup Range(to) |->
                         IF n \in Range(to)
                         THEN LET i == CHOOSE j \in DOMAIN to : to[j] = n
                              IN  Apply(OpTag(t, "forward"), x[from[i]])
                         ELSE x[n]]]

\* inverse(y): the output names are consumed, the input names produced, and
\* the log-Jacobian term of the inverse map at y is returned with them.
inverse(t, y) ==
    LET from == t.name_mapping[1]
        to   == t.name_mapping[2]
    IN  IF ~(Range(to) \subseteq DOMAIN y) \/ Len(from) /= Len(to)
        THEN Raise
        ELSE [ok |-> TRUE,
              out |-> [n \in (DOMAIN y \ Range(to)) \cup Range(from) |->
                         IF n \in Range(from)
                         THEN LET i == CHOOSE j \in DOMAIN from : from[j] = n
                              IN  Apply(OpTag(t, "inverse"), y[to[i]])
                         ELSE y[n]],
              log_jacobian |-> [f |-> "log_jacobian", of |-> OpTag(t, "inverse"),
                                at |-> [i \in DOMAIN to |-> y[to[i]]]]]

OffsetTransform(from, to, c) == Transform("OffsetTransform", from, to, <<c>>)
ScaleTransform(from, to, s) == Transform("ScaleTransform", from, to, <<s>>)
LogitTransform(from, to) == Transform("LogitTransform", from, to, <<>>)
ArcSineTransform(from, to) == Transform("ArcSineTransform", from, to, <<>>)
PowerLawTransform(from, to, xmin, xmax, alpha) ==
    Transform("PowerLawTransform", from, to, <<xmin, xmax, alpha>>)
ParetoTransform(from, to, xmin, xmax) == Transform("ParetoTransform", from, to, <<xmin, xmax>>)

TransformPool ==
    { OffsetTransform(<<"x">>, <<"y">>, 1), ScaleTransform(<<"y">>, <<"x">>, 2) }

(***************************************************************************)
(* Prior objects                                                           *)
(***************************************************************************)
\* base_kind: "none" for a leaf (no base_prior attribute), "prior" when
\* base_prior is one Prior, "list" when it is a list of Priors.
\* attrs: the other attributes a derived class sets (xmin, xmax, ...).
PriorObject(cls, names, composite, base_kind, base_prior, transforms) ==
    [cls |-> cls, parameter_names |-> names, composite |-> composite,
     base_kind |-> base_kind, base_prior |-> base_prior, transforms |-> transforms,
     attrs |-> <<>>]

\* The objects alive during a constructor call; built lists the classes of
\* the priors and transforms the call has constructed so far, in order.
World(h, ls) == [heap |-> h, lists |-> ls, ok |-> TRUE, obj |-> 0, built |-> <<>>]

\* An exception raised in world w
Failed(w) == [heap |-> w.heap, lists |-> w.lists, ok |-> FALSE, obj |-> 0, built |-> w.built]

\* An exception raised in world w, after a call that started in world w0 had
\* built what w holds: the objects of the call are dropped
Unwound(w0, w) == [Failed(w0) EXCEPT !.built = w.built]

NewList(w, contents) == [w EXCEPT !.lists = Append(w.lists, contents)]

NewObject(w, o) ==
    [w EXCEPT !.heap = Append(w.heap, o), !.obj = Len(w.heap) + 1,
              !.built = Append(w.built, o.cls)]

\* The transforms ts have been constructed, in order
Built(w, ts) == [w EXCEPT !.built = w.built \o [i \in DOMAIN ts |-> ts[i].cls]]

NamesIn(h, ls, p) == ls[h[p].parameter_names]

n_dim(h, ls, p) == Len(NamesIn(h, ls, p))

\* A variant without the assertion on the dimension
NewLeafUnchecked(w, cls, dim, names) ==
    LET w1 == NewList(w, names)
    IN  NewObject(w1, PriorObject(cls, Len(w1.lists), FALSE, "none", <<>>, <<>>))

\* A leaf distribution: Prior.__init__ keeps the caller's list, the class
\* sets composite = False and asserts its dimension.
NewLeaf(w, cls, dim, names) ==
    IF Len(names) /= dim
    THEN Failed(w)
    ELSE LET w1 == NewList(w, names)
         IN  NewObject(w1, PriorObject(cls, Len(w1.lists), FALSE, "none", <<>>, <<>>))

LogisticDistribution(w, names) == NewLeaf(w, "LogisticDistribution", 1, names)

StandardNormalDistribution(w, names) == NewLeaf(w, "StandardNormalDistribution", 1, names)

LogisticSimplexDistribution(w, names) == NewLeaf(w, "LogisticSimplexDistribution", 2, names)

(***************************************************************************)
(* SequentialTransformPrior.__init__                                       *)
(***************************************************************************)
RECURSIVE ThreadNamesReversed(_, _, _)
\* A variant that threads the names through the transforms last to first
ThreadNamesReversed(transforms, i, names) ==
    IF i > Len(transforms)
    THEN names
    ELSE ThreadNamesReversed(transforms, i + 1,
             propagate_name(transforms[Len(transforms) + 1 - i], names))

RECURSIVE ThreadNames(_, _, _)
\* for transform in transforms:
\*     self.parameter_names = transform.propagate_name(self.parameter_names)
ThreadNames(transforms, i, names) ==
    IF i > Len(transforms)
    THEN names
    ELSE ThreadNames(transforms, i + 1, propagate_name(transforms[i], names))

\* A variant that does not set self.composite, leaving the class default
SequentialTransformPriorNotFlagged(w, cls, base_prior, transforms) ==
    LET baseNames == w.heap[base_prior].parameter_names
        w1 == IF transforms = <<>>
              THEN w
              ELSE NewList(w, ThreadNames(transforms, 1, w.lists[baseNames]))
        names == IF transforms = <<>> THEN baseNames ELSE Len(w1.lists)
    IN  NewObject(w1, PriorObject(cls, names, FALSE, "prior", <<base_prior>>, transforms))

\* parameter_names starts as the base's own list object and is rebound to a
\* new list by every propagate_name.
SequentialTransformPrior(w, cls, base_prior, transforms) ==
    LET baseNames == w.heap[base_prior].parameter_names
        w1 == IF transforms = <<>>
              THEN w
              ELSE NewList(w, ThreadNames(transforms, 1, w.lists[baseNames]))
        names == IF transforms = <<>> THEN baseNames ELSE Len(w1.lists)
    IN  NewObject(w1, PriorObject(cls, names, TRUE, "prior", <<base_prior>>, transforms))

(***************************************************************************)
(* CombinePrior.__init__                                                   *)
(***************************************************************************)
RECURSIVE ExtendNamesUnique(_, _, _, _)
\* A variant that adds only the names the list does not hold yet
ExtendNamesUnique(w, l, priors, i) ==
    IF i > Len(priors)
    THEN w
    ELSE ExtendNamesUnique(
             [w EXCEPT !.lists[l] =
                 @ \o SelectSeq(w.lists[w.heap[priors[i]].parameter_names],
                                LAMBDA n : n \notin {@[j] : j \in DOMAIN @})],
             l, priors, i + 1)

RECURSIVE ExtendNames(_, _, _, _)
\* for prior in priors: parameter_names += prior.parameter_names
\* (the list object l is extended in place)
ExtendNames(w, l, priors, i) ==
    IF i > Len(priors)
    THEN w
    ELSE ExtendNames([w EXCEPT !.lists[l] = @ \o w.lists[w.heap[priors[i]].parameter_names]],
                     l, priors, i + 1)

\* A variant that starts from the first child's own list,
\* parameter_names = priors[0].parameter_names, and extends it in place
CombinePriorAliasing(w, cls, priors) ==
    IF priors = <<>>
    THEN LET w1 == NewList(w, <<>>)
         IN  NewObject(w1, PriorObject(cls, Len(w1.lists), TRUE, "list", priors, <<>>))
    ELSE LET l  == w.heap[priors[1]].parameter_names
             w2 == ExtendNames(w, l, priors, 2)
         IN  NewObject(w2, PriorObject(cls, l, TRUE, "list", priors, <<>>))

CombinePrior(w, cls, priors) ==
    LET w1 == NewList(w, <<>>)
        l  == Len(w1.lists)
        w2 == ExtendNames(w1, l, priors, 1)
    IN  NewObject(w2, PriorObject(cls, l, TRUE, "list", priors, <<>>))

(***************************************************************************)
(* Derived priors                                                          *)
(***************************************************************************)
\* str() of a float with an integral value, as the f-strings format it
FloatStr(v) == ToString(v) \o ".0"

\* A variant whose OffsetTransform reads the name the LogitTransform wrote
UniformPriorMislinked(w, xmin, xmax, parameter_names) ==
    IF Len(parameter_names) /= 1
    THEN Failed(w)
    ELSE LET p  == parameter_names[1]
             n1 == p \o "_base"
             n2 == "(" \o p \o "-(" \o FloatStr(xmin) \o "))/" \o FloatStr(xmax - xmin)
             n3 == p \o "-(" \o FloatStr(xmin) \o ")"
             w1 == LogisticDistribution(w, <<n1>>)
             ts == << LogitTransform(<<n1>>, <<n2>>),
                      ScaleTransform(<<n2>>, <<n3>>, xmax - xmin),
                      OffsetTransform(<<n2>>, parameter_names, xmin) >>
             w2 == SequentialTransformPrior(Built(w1, ts), "UniformPrior", w1.obj, ts)
         IN  [w2 EXCEPT !.heap[w2.obj].attrs = <<xmin, xmax>>]

UniformPrior(w, xmin, xmax, parameter_names) ==
    IF Len(parameter_names) /= 1
    THEN Failed(w)
    ELSE LET p  == parameter_names[1]
             n1 == p \o "_base"
             n2 == "(" \o p \o "-(" \o FloatStr(xmin) \o "))/" \o FloatStr(xmax - xmin)
             n3 == p \o "-(" \o FloatStr(xmin) \o ")"
             w1 == LogisticDistribution(w, <<n1>>)
             ts == << LogitTransform(<<n1>>, <<n2>>),
                      ScaleTransform(<<n2>>, <<n3>>, xmax - xmin),
                      OffsetTransform(<<n3>>, parameter_names, xmin) >>
             w2 == SequentialTransformPrior(Built(w1, ts), "UniformPrior", w1.obj, ts)
         IN  [w2 EXCEPT !.heap[w2.obj].attrs = <<xmin, xmax>>]

\* A variant that names the UniformPrior under it cos(<p>)
CosinePriorMisnamed(w, parameter_names) ==
    IF Len(parameter_names) /= 1
    THEN Failed(w)
    ELSE LET p  == parameter_names[1]
             n1 == "cos(" \o p \o ")"
             w1 == UniformPrior(w, -1, 1, <<n1>>)
             ts == << ArcSineTransform(<<n1>>, <<p>>) >>
         IN  SequentialTransformPrior(Built(w1, ts), "CosinePrior", w1.obj, ts)

CosinePrior(w, parameter_names) ==
    IF Len(parameter_names) /= 1
    THEN Failed(w)
    ELSE LET p  == parameter_names[1]
             n1 == "sin(" \o p \o ")"
             w1 == UniformPrior(w, -1, 1, <<n1>>)
             ts == << ArcSineTransform(<<n1>>, <<p>>) >>
         IN  SequentialTransformPrior(Built(w1, ts), "CosinePrior", w1.obj, ts)

\* Floats are modelled by integers; jnp.pi / 2 and 2 * jnp.pi by the nearest
\* ones.
HalfPi == 2
TwoPi == 6

SinePrior(w, parameter_names) ==
    IF Len(parameter_names) /= 1
    THEN Failed(w)
    ELSE LET p  == parameter_names[1]
             n1 == p \o "-pi/2"
             w1 == CosinePrior(w, <<n1>>)
             ts == << OffsetTransform(<<n1>>, <<p>>, HalfPi) >>
         IN  SequentialTransformPrior(Built(w1, ts), "SinePrior", w1.obj, ts)

\* super().__init__ is called with the CombinePrior alone: the transforms
\* argument of SequentialTransformPrior.__init__ is missing, a TypeError
SimplexPrior(w, parameter_names) ==
    IF Len(parameter_names) /= 2
    THEN Failed(w)
    ELSE LET w1 == UniformPrior(w, 0, 1, <<parameter_names[1]>>)
             w2 == UniformPrior(w1, 0, 1, <<parameter_names[2]>>)
             w3 == CombinePrior(w2, "CombinePrior", <<w1.obj, w2.obj>>)
         IN  Unwound(w, w3)

\* A variant that hands the children over in the order mag, phi, theta
UniformSpherePriorSwapped(w, parameter_names) ==
    IF Len(parameter_names) /= 1
    THEN Failed(w)
    ELSE LET v  == parameter_names[1]
             w1 == UniformPrior(w, 0, 1, <<v \o "_mag">>)
             w2 == UniformPrior(w1, 0, TwoPi, <<v \o "_phi">>)
             w3 == SinePrior(w2, <<v \o "_theta">>)
         IN  CombinePrior(w3, "UniformSpherePrior", <<w1.obj, w2.obj, w3.obj>>)

UniformSpherePrior(w, parameter_names) ==
    IF Len(parameter_names) /= 1
    THEN Failed(w)
    ELSE LET v  == parameter_names[1]
             w1 == UniformPrior(w, 0, 1, <<v \o "_mag">>)
             w2 == SinePrior(w1, <<v \o "_theta">>)
             w3 == UniformPrior(w2, 0, TwoPi, <<v \o "_phi">>)
         IN  CombinePrior(w3, "UniformSpherePrior", <<w1.obj, w2.obj, w3.obj>>)

\* A variant that checks the bounds only after the transform and the base
\* have been built
PowerLawPriorLateCheck(w, cls, xmin, xmax, alpha, parameter_names) ==
    IF Len(parameter_names) /= 1
    THEN Failed(w)
    ELSE LET p  == parameter_names[1]
             n1 == p \o "_base"
             n2 == p \o "_before_transform"
             tr == IF alpha = -1
                   THEN ParetoTransform(<<n2>>, parameter_names, xmin, xmax)
                   ELSE PowerLawTransform(<<n2>>, parameter_names, xmin, xmax, alpha)
             w1 == LogisticDistribution(Built(w, <<tr>>), <<n1>>)
             ts == << LogitTransform(<<n1>>, <<n2>>), tr >>
             w2 == SequentialTransformPrior(Built(w1, <<ts[1]>>), cls, w1.obj, ts)
         IN  IF ~(xmin < xmax) \/ ~(xmin > 0)
             THEN Unwound(w, w2)
             ELSE [w2 EXCEPT !.heap[w2.obj].attrs = <<xmin, xmax, alpha>>]

\* A variant without the special case of alpha == -1.0
PowerLawPriorNoPareto(w, cls, xmin, xmax, alpha, parameter_names) ==
    IF Len(parameter_names) /= 1
    THEN Failed(w)
    ELSE IF ~(xmin < xmax) \/ ~(xmin > 0)
    THEN Failed(w)
    ELSE LET p  == parameter_names[1]
             n1 == p \o "_base"
             n2 == p \o "_before_transform"
             tr == PowerLawTransform(<<n2>>, parameter_names, xmin, xmax, alpha)
             w1 == LogisticDistribution(Built(w, <<tr>>), <<n1>>)
             ts == << LogitTransform(<<n1>>, <<n2>>), tr >>
             w2 == SequentialTransformPrior(Built(w1, <<ts[1]>>), cls, w1.obj, ts)
         IN  [w2 EXCEPT !.heap[w2.obj].attrs = <<xmin, xmax, alpha>>]

\* cls is the class being constructed (PowerLawPrior or a subclass)
PowerLawPrior(w, cls, xmin, xmax, alpha, parameter_names) ==
    IF Len(parameter_names) /= 1
    THEN Failed(w)
    ELSE IF ~(xmin < xmax) \/ ~(xmin > 0)
    THEN Failed(w)
    ELSE LET p  == parameter_names[1]
             n1 == p \o "_base"
             n2 == p \o "_before_transform"
             tr == IF alpha = -1
                   THEN ParetoTransform(<<n2>>, parameter_names, xmin, xmax)
                   ELSE PowerLawTransform(<<n2>>, parameter_names, xmin, xmax, alpha)
             w1 == LogisticDistribution(Built(w, <<tr>>), <<n1>>)
             ts == << LogitTransform(<<n1>>, <<n2>>), tr >>
             w2 == SequentialTransformPrior(Built(w1, <<ts[1]>>), cls, w1.obj, ts)
         IN  [w2 EXCEPT !.heap[w2.obj].attrs = <<xmin, xmax, alpha>>]

UniformInComponentsChirpMassPrior(w, xmin, xmax) ==
    PowerLawPrior(w, "UniformInComponentsChirpMassPrior", xmin, xmax, 1, <<"M_c">>)

(***************************************************************************)
(* sample                                                                  *)
(***************************************************************************)
DirichletSeed == 0
DirichletShape == 1000

SampleOp(name) == [cls |-> name, params |-> <<>>, dir |-> "sample"]

Max(a, b) == IF a >= b THEN a ELSE b
Min(a, b) == IF a <= b THEN a ELSE b

\* Prior.add_name: dict(zip(self.parameter_names, x)); zip stops at the
\* shorter of the two, and a repeated name keeps its last row.
add_name(names, x) ==
    LET k == Min(Len(names), Len(x))
    IN  [nm \in {names[i] : i \in 1..k} |->
            x[CHOOSE i \in 1..k : names[i] = nm /\ \A j \in 1..k : names[j] = nm => j <= i]]

\* dict.update
Update(a, b) ==
    [nm \in DOMAIN a \cup DOMAIN b |-> IF nm \in DOMAIN b THEN b[nm] ELSE a[nm]]

Returned(out, calls, draws) == [ok |-> TRUE, out |-> out, calls |-> calls, draws |-> draws]

LogisticSample(names, self, rng_key, n_samples) ==
    LET samples == Apply(SampleOp("log(u/(1-u))"), Draw(rng_key, "uniform", n_samples, 0))
    IN  Returned(add_name(names, <<samples>>), <<>>, <<[leaf |-> self, key |-> rng_key]>>)

StandardNormalSample(names, self, rng_key, n_samples) ==
    LET samples == Draw(rng_key, "normal", n_samples, 0)
    IN  Returned(add_name(names, <<samples>>), <<>>, <<[leaf |-> self, key |-> rng_key]>>)

\* The Dirichlet batch is drawn from PRNGKey(0) with shape (1000,), whatever
\* rng_key and n_samples are; z2 is computed from columns 0 and 1.
LogisticSimplexSample(names, self, rng_key, n_samples) ==
    LET key == PRNGKey(DirichletSeed)
        z1 == Apply(SampleOp("log(s0/(1-s0))"), Draw(key, "dirichlet", DirichletShape, 0))
        z2 == Apply(SampleOp("log(t/(1-t)), t=s1/(1-s0)"),
                    Draw(key, "dirichlet", DirichletShape, 1))
    IN  Returned(add_name(names, <<z1, z2>>), <<>>, <<[leaf |-> self, key |-> key]>>)

RECURSIVE transformReversed(_, _, _, _)
\* A variant that applies the transforms last to first
transformReversed(transforms, i, x, calls) ==
    IF i > Len(transforms)
    THEN [ok |-> TRUE, out |-> x, calls |-> calls]
    ELSE LET k == Len(transforms) + 1 - i
             r == forward(transforms[k], x)
             c == Append(calls, [fn |-> "forward", callee |-> k, arg |-> x])
         IN  IF r.ok THEN transformReversed(transforms, i + 1, r.out, c) ELSE Raise

RECURSIVE transform(_, _, _, _)
\* SequentialTransformPrior.transform: for transform in self.transforms:
\*     x = transform.forward(x)
\* calls collects the forward calls made, with their arguments.
transform(transforms, i, x, calls) ==
    IF i > Len(transforms)
    THEN [ok |-> TRUE, out |-> x, calls |-> calls]
    ELSE LET r == forward(transforms[i], x)
             c == Append(calls, [fn |-> "forward", callee |-> i, arg |-> x])
         IN  IF r.ok THEN transform(transforms, i + 1, r.out, c) ELSE Raise

\* jax.vmap maps over the leading axis of every array of the mapping: there
\* must be an array, and all must have the same length.
VmapOk(x) ==
    /\ DOMAIN x /= {}
    /\ \A a, b \in DOMAIN x : x[a].src.len = x[b].src.len

RECURSIVE Sample(_, _, _, _, _)

\* A variant that returns the base's sample as it is
SequentialSampleUntransformed(h, ls, self, rng_key, n_samples) ==
    LET base   == h[self].base_prior[1]
        output == Sample(h, ls, base, rng_key, n_samples)
        first  == [fn |-> "sample", callee |-> base, arg |-> <<rng_key, n_samples>>]
    IN  IF ~output.ok THEN Raise ELSE Returned(output.out, <<first>>, output.draws)

SequentialSample(h, ls, self, rng_key, n_samples) ==
    LET base   == h[self].base_prior[1]
        output == Sample(h, ls, base, rng_key, n_samples)
        first  == [fn |-> "sample", callee |-> base, arg |-> <<rng_key, n_samples>>]
    IN  IF ~output.ok THEN Raise
        ELSE IF ~VmapOk(output.out) THEN Raise
        ELSE LET r == transform(h[self].transforms, 1, output.out, <<first>>)
             IN  IF r.ok THEN Returned(r.out, r.calls, output.draws) ELSE Raise

RECURSIVE CombineSampleLoop(_, _, _, _, _, _, _)
\* for prior in self.base_prior:
\*     rng_key, subkey = jax.random.split(rng_key)
\*     output.update(prior.sample(subkey, n_samples))
CombineSampleLoop(h, ls, priors, i, rng_key, n_samples, acc) ==
    IF i > Len(priors)
    THEN acc
    ELSE LET keys   == split(rng_key)
             subkey == keys[2]
             r      == Sample(h, ls, priors[i], subkey, n_samples)
             call   == [fn |-> "sample", callee |-> priors[i], arg |-> <<subkey, n_samples>>]
         IN  IF ~r.ok THEN Raise
             ELSE CombineSampleLoop(h, ls, priors, i + 1, keys[1], n_samples,
                      Returned(Update(acc.out, r.out), Append(acc.calls, call),
                               acc.draws \o r.draws))

CombineSample(h, ls, self, rng_key, n_samples) ==
    CombineSampleLoop(h, ls, h[self].base_prior, 1, rng_key, n_samples,
                      Returned(<<>>, <<>>, <<>>))

Sample(h, ls, self, rng_key, n_samples) ==
    CASE h[self].base_kind = "prior" -> SequentialSample(h, ls, self, rng_key, n_samples)
      [] h[self].base_kind = "list" -> CombineSample(h, ls, self, rng_key, n_samples)
      [] h[self].cls = "LogisticDistribution" ->
             LogisticSample(NamesIn(h, ls, self), self, rng_key, n_samples)
      [] h[self].cls = "StandardNormalDistribution" ->
             StandardNormalSample(NamesIn(h, ls, self), self, rng_key, n_samples)
      [] h[self].cls = "LogisticSimplexDistribution" ->
             LogisticSimplexSample(NamesIn(h, ls, self), self, rng_key, n_samples)

(***************************************************************************)
(* log_prob.  A log-density is the sequence of the terms added to output,  *)
(* in the order of the additions, starting from 0.                         *)
(***************************************************************************)
NoOp == [cls |-> "", params |-> <<>>, dir |-> ""]

Term(f, at) == [f |-> f, of |-> NoOp, at |-> at]

Evaluated(out, calls) == [ok |-> TRUE, out |-> out, calls |-> calls]

\* z[self.parameter_names[0]] raises KeyError when z has no such key
LogisticLogProb(names, z) ==
    IF names[1] \notin DOMAIN z
    THEN Raise
    ELSE Evaluated(<<Term("-x-2*log(1+exp(-x))", <<z[names[1]]>>)>>, <<>>)

StandardNormalLogProb(names, z) ==
    IF names[1] \notin DOMAIN z
    THEN Raise
    ELSE Evaluated(<<Term("-0.5*x**2-0.5*log(2*pi)", <<z[names[1]]>>)>>, <<>>)

\* z1 and z2 are read, and log(2.0) is returned
LogisticSimplexLogProb(names, z) ==
    IF names[1] \notin DOMAIN z \/ names[2] \notin DOMAIN z
    THEN Raise
    ELSE Evaluated(<<Term("log(2.0)", <<>>)>>, <<>>)

RECURSIVE InverseLoopForward(_, _, _, _, _)
\* A variant that inverts the transforms first to last
InverseLoopForward(transforms, i, z, output, calls) ==
    IF i < 1
    THEN [ok |-> TRUE, z |-> z, out |-> output, calls |-> calls]
    ELSE LET k == Len(transforms) + 1 - i
             r == inverse(transforms[k], z)
             c == Append(calls, [fn |-> "inverse", callee |-> k, arg |-> z])
         IN  IF r.ok
             THEN InverseLoopForward(transforms, i - 1, r.out, Append(output, r.log_jacobian), c)
             ELSE Raise

RECURSIVE InverseLoop(_, _, _, _, _)
\* for transform in reversed(self.transforms):
\*     z, log_jacobian = transform.inverse(z)
\*     output += log_jacobian
InverseLoop(transforms, i, z, output, calls) ==
    IF i < 1
    THEN [ok |-> TRUE, z |-> z, out |-> output, calls |-> calls]
    ELSE LET r == inverse(transforms[i], z)
             c == Append(calls, [fn |-> "inverse", callee |-> i, arg |-> z])
         IN  IF r.ok
             THEN InverseLoop(transforms, i - 1, r.out, Append(output, r.log_jacobian), c)
             ELSE Raise

RECURSIVE LogProb(_, _, _, _)

SequentialLogProb(h, ls, self, z) ==
    LET transforms == h[self].transforms
        base == h[self].base_prior[1]
        r == InverseLoop(transforms, Len(transforms), z, <<>>, <<>>)
    IN  IF ~r.ok THEN Raise
        ELSE LET b == LogProb(h, ls, base, r.z)
                 c == Append(r.calls, [fn |-> "log_prob", callee |-> base, arg |-> r.z])
             IN  IF b.ok THEN Evaluated(r.out \o b.out, c) ELSE Raise

RECURSIVE CombineLogProbLoopAssigning(_, _, _, _, _, _)
\* A variant of the loop that assigns instead of accumulating:
\* for prior in self.base_prior: output = prior.log_prob(z)
CombineLogProbLoopAssigning(h, ls, priors, i, z, acc) ==
    IF i > Len(priors)
    THEN acc
    ELSE LET r == LogProb(h, ls, priors[i], z)
             c == [fn |-> "log_prob", callee |-> priors[i], arg |-> z]
         IN  IF ~r.ok THEN Raise
             ELSE CombineLogProbLoopAssigning(h, ls, priors, i + 1, z,
                      Evaluated(r.out, Append(acc.calls, c)))

RECURSIVE CombineLogProbLoop(_, _, _, _, _, _)
\* for prior in self.base_prior: output += prior.log_prob(z)
CombineLogProbLoop(h, ls, priors, i, z, acc) ==
    IF i > Len(priors)
    THEN acc
    ELSE LET r == LogProb(h, ls, priors[i], z)
             c == [fn |-> "log_prob", callee |-> priors[i], arg |-> z]
         IN  IF ~r.ok THEN Raise
             ELSE CombineLogProbLoop(h, ls, priors, i + 1, z,
                      Evaluated(acc.out \o r.out, Append(acc.calls, c)))

CombineLogProb(h, ls, self, z) ==
    CombineLogProbLoop(h, ls, h[self].base_prior, 1, z, Evaluated(<<>>, <<>>))

LogProb(h, ls, self, z) ==
    CASE h[self].base_kind = "prior" -> SequentialLogProb(h, ls, self, z)
      [] h[self].base_kind = "list" -> CombineLogProb(h, ls, self, z)
      [] h[self].cls = "LogisticDistribution" -> LogisticLogProb(NamesIn(h, ls, self), z)
      [] h[self].cls = "StandardNormalDistribution" ->
             StandardNormalLogProb(NamesIn(h, ls, self), z)
      [] h[self].cls = "LogisticSimplexDistribution" ->
             LogisticSimplexLogProb(NamesIn(h, ls, self), z)

(***************************************************************************)
(* trace_prior_parent                                                      *)
(***************************************************************************)
RECURSIVE trace_prior_parent(_, _, _)
RECURSIVE TraceSubpriorsReversed(_, _, _, _)
RECURSIVE TraceSubpriors(_, _, _, _)

\* A variant that visits the subpriors last to first
TraceSubpriorsReversed(h, priors, i, output) ==
    IF i > Len(priors)
    THEN output
    ELSE TraceSubpriorsReversed(h, priors, i + 1,
             trace_prior_parent(h, priors[Len(priors) + 1 - i], output))

\* for subprior in prior.base_prior: output = trace_prior_parent(subprior, output)
TraceSubpriors(h, priors, i, output) ==
    IF i > Len(priors)
    THEN output
    ELSE TraceSubpriors(h, priors, i + 1, trace_prior_parent(h, priors[i], output))

\* output is the list object the caller gave (or the default one); append
\* changes it in place and it is the list returned.
trace_prior_parent(h, prior, output) ==
    IF h[prior].composite
    THEN IF h[prior].base_kind = "list"
         THEN TraceSubpriors(h, h[prior].base_prior, 1, output)
         ELSE IF h[prior].base_kind = "prior"
              THEN trace_prior_parent(h, h[prior].base_prior[1], output)
              ELSE output
    ELSE Append(output, prior)

RECURSIVE TraceVisits(_, _, _)
RECURSIVE VisitSubpriorsSkippingLast(_, _, _, _)
RECURSIVE VisitSubpriors(_, _, _, _)

\* A variant of the loop that stops one subprior short
VisitSubpriorsSkippingLast(h, priors, i, visits) ==
    IF i >= Len(priors)
    THEN visits
    ELSE VisitSubpriorsSkippingLast(h, priors, i + 1, TraceVisits(h, priors[i], visits))

\* The calls made by the loop over prior.base_prior
VisitSubpriors(h, priors, i, visits) ==
    IF i > Len(priors)
    THEN visits
    ELSE VisitSubpriors(h, priors, i + 1, TraceVisits(h, priors[i], visits))

\* The priors trace_prior_parent is called on, in the order of the calls:
\* the call on prior itself, then the recursive calls its body makes.
TraceVisits(h, prior, visits) ==
    LET entered == Append(visits, prior)
    IN  IF h[prior].composite
        THEN IF h[prior].base_kind = "list"
             THEN VisitSubpriors(h, h[prior].base_prior, 1, entered)
             ELSE IF h[prior].base_kind = "prior"
                  THEN TraceVisits(h, h[prior].base_prior[1], entered)
                  ELSE entered
        ELSE entered

(***************************************************************************)
(* The state after import: no prior exists, and the default value of       *)
(* trace_prior_parent's output parameter is the empty list.                *)
(***************************************************************************)
Init ==
    /\ heap = <<>>
    /\ lists = <<>>
    /\ defaultOutput = <<>>
    /\ last = [op |-> "import"]

Ids == DOMAIN heap

\* Ownership is tree-shaped: a caller gives a prior to one composite only,
\* so what it builds on are the priors no composite holds yet.
Free == {p \in Ids : \A q \in Ids : p \notin Range(heap[q].base_prior)}

\* A constructor call: its objects are kept when it returns, and nothing is
\* when it raises.  cap bounds the number of objects.
Construct(cls, args, r, cap) ==
    /\ Len(r.heap) <= cap
    /\ heap' = r.heap
    /\ lists' = r.lists
    /\ last' = [op |-> "construct", cls |-> cls, args |-> args, ok |-> r.ok, obj |-> r.obj,
                built |-> r.built]
    /\ UNCHANGED defaultOutput

NewLogisticDistribution(cap) ==
    \E names \in NameListPool :
        Construct("LogisticDistribution", <<names>>,
                  LogisticDistribution(World(heap, lists), names), cap)

NewStandardNormalDistribution(cap) ==
    \E names \in NameListPool :
        Construct("StandardNormalDistribution", <<names>>,
                  StandardNormalDistribution(World(heap, lists), names), cap)

NewLogisticSimplexDistribution(cap) ==
    \E names \in NameListPool :
        Construct("LogisticSimplexDistribution", <<names>>,
                  LogisticSimplexDistribution(World(heap, lists), names), cap)

NewSequentialTransformPrior(cap) ==
    \E base_prior \in Free, transforms \in ListsOf(TransformPool) :
        Construct("SequentialTransformPrior", <<base_prior, transforms>>,
                  SequentialTransformPrior(World(heap, lists), "SequentialTransformPrior",
                                           base_prior, transforms), cap)

NewCombinePrior(cap) ==
    \E priors \in ListsOf(Free) :
        Construct("CombinePrior", <<priors>>,
                  CombinePrior(World(heap, lists), "CombinePrior", priors), cap)

BoundsPool == { <<0, 1>>, <<-1, 1>> }

NewUniformPrior(cap) ==
    \E b \in BoundsPool, names \in NameListPool :
        Construct("UniformPrior", <<b[1], b[2], names>>,
                  UniformPrior(World(heap, lists), b[1], b[2], names), cap)

NewCosinePrior(cap) ==
    \E names \in NameListPool :
        Construct("CosinePrior", <<names>>, CosinePrior(World(heap, lists), names), cap)

\* no name, one name, two names
DerivedNamePool == {<<>>, <<"x">>, <<"x", "y">>}

\* an interval, an empty one, an inverted one
AnyBoundsPool == { <<0, 1>>, <<1, 1>>, <<1, 0>> }

NewUniformPriorAnyBounds(cap) ==
    \E b \in AnyBoundsPool, names \in DerivedNamePool :
        Construct("UniformPrior", <<b[1], b[2], names>>,
                  UniformPrior(World(heap, lists), b[1], b[2], names), cap)

NewSinePrior(cap) ==
    \E names \in DerivedNamePool :
        Construct("SinePrior", <<names>>, SinePrior(World(heap, lists), names), cap)

NewSimplexPrior(cap) ==
    \E names \in DerivedNamePool :
        Construct("SimplexPrior", <<names>>, SimplexPrior(World(heap, lists), names), cap)

NewUniformSpherePrior(cap) ==
    \E names \in DerivedNamePool :
        Construct("UniformSpherePrior", <<names>>,
                  UniformSpherePrior(World(heap, lists), names), cap)

\* a positive interval, an inverted one, an empty one, and intervals that
\* start at zero and below it
PowerBoundsPool == { <<1, 2>>, <<2, 1>>, <<1, 1>>, <<0, 1>>, <<-1, 1>> }

Alphas == {-1, 0, 1}

NewPowerLawPrior(cap) ==
    \E b \in PowerBoundsPool, alpha \in Alphas, names \in DerivedNamePool :
        Construct("PowerLawPrior", <<b[1], b[2], alpha, names>>,
                  PowerLawPrior(World(heap, lists), "PowerLawPrior", b[1], b[2], alpha, names),
                  cap)

NewUniformInComponentsChirpMassPrior(cap) ==
    \E b \in PowerBoundsPool :
        Construct("UniformInComponentsChirpMassPrior", <<b[1], b[2]>>,
                  UniformInComponentsChirpMassPrior(World(heap, lists), b[1], b[2]), cap)

DoSample ==
    \E self \in Ids, seed \in Seeds, n_samples \in 0..MaxSamples :
        LET r == Sample(heap, lists, self, PRNGKey(seed), n_samples)
        IN  /\ last' = [op |-> "sample", obj |-> self, key |-> PRNGKey(seed),
                        n |-> n_samples, ok |-> r.ok,
                        out |-> IF r.ok THEN r.out ELSE <<>>,
                        calls |-> IF r.ok THEN r.calls ELSE <<>>,
                        draws |-> IF r.ok THEN r.draws ELSE <<>>]
            /\ UNCHANGED <<heap, lists, defaultOutput>>

\* The mappings a caller evaluates log_prob on: the keys are the names of
\* some prior, or the plain names, and the value under key nm is Input(nm).
ZDomains == {Range(lists[heap[q].parameter_names]) : q \in Ids} \cup {Names}

\* The reverse of a list
Reversed(s) == [i \in DOMAIN s |-> s[Len(s) + 1 - i]]

\* A variant of log_prob that reverses self.transforms in place instead of
\* iterating over reversed(self.transforms)
DoLogProbReversingInPlace ==
    \E self \in Ids, dom \in ZDomains :
        LET z == [nm \in dom |-> Input(nm)]
            r == LogProb(heap, lists, self, z)
        IN  /\ last' = [op |-> "log_prob", obj |-> self, z |-> z, ok |-> r.ok,
                        out |-> IF r.ok THEN r.out ELSE <<>>,
                        calls |-> IF r.ok THEN r.calls ELSE <<>>]
            /\ heap' = [heap EXCEPT ![self].transforms = Reversed(@)]
            /\ UNCHANGED <<lists, defaultOutput>>

DoLogProb ==
    \E self \in Ids, dom \in ZDomains :
        LET z == [nm \in dom |-> Input(nm)]
            r == LogProb(heap, lists, self, z)
        IN  /\ last' = [op |-> "log_prob", obj |-> self, z |-> z, ok |-> r.ok,
                        out |-> IF r.ok THEN r.out ELSE <<>>,
                        calls |-> IF r.ok THEN r.calls ELSE <<>>]
            /\ UNCHANGED <<heap, lists, defaultOutput>>

\* jax.vmap(p.log_prob)(trace_prior_parent(p, [])[0].sample(key, n)):
\* log_prob of p on the sample of p's first leaf, row by row.  Indexing an
\* empty list of leaves raises IndexError.
DoLogProbOfLeafSample ==
    \E self \in Ids, seed \in Seeds, n_samples \in 1..MaxSamples :
        LET leaves  == trace_prior_parent(heap, self, <<>>)
            samples == IF leaves = <<>> THEN Raise
                       ELSE Sample(heap, lists, leaves[1], PRNGKey(seed), n_samples)
            r       == IF ~samples.ok THEN Raise
                       ELSE IF ~VmapOk(samples.out) THEN Raise
                       ELSE LogProb(heap, lists, self, samples.out)
        IN  /\ last' = [op |-> "log_prob", obj |-> self,
                        z |-> IF samples.ok THEN samples.out ELSE <<>>,
                        of_leaf |-> IF leaves = <<>> THEN 0 ELSE leaves[1],
                        ok |-> r.ok,
                        out |-> IF r.ok THEN r.out ELSE <<>>,
                        calls |-> IF r.ok THEN r.calls ELSE <<>>]
            /\ UNCHANGED <<heap, lists, defaultOutput>>

\* The values a caller evaluates log_prob at: 0 lies inside [0, 1] and
\* [-1, 1], 2 lies outside both
Points == {0, 2}

\* prior.log_prob(z) on a mapping of the plain names, with the value
\* point[nm] under key nm.  The evaluation is symbolic: z[nm] stands for
\* that value.
DoLogProbAt ==
    \E self \in Ids, point \in [Names -> Points] :
        LET z == [nm \in Names |-> Input(nm)]
            r == LogProb(heap, lists, self, z)
        IN  /\ last' = [op |-> "log_prob", obj |-> self, z |-> z, point |-> point,
                        ok |-> r.ok,
                        out |-> IF r.ok THEN r.out ELSE <<>>,
                        calls |-> IF r.ok THEN r.calls ELSE <<>>]
            /\ UNCHANGED <<heap, lists, defaultOutput>>

\* prior.transform(x) called on a SequentialTransformPrior
DoTransform ==
    \E self \in {p \in Ids : heap[p].base_kind = "prior"}, dom \in ZDomains :
        LET x == [nm \in dom |-> Input(nm)]
            r == transform(heap[self].transforms, 1, x, <<>>)
        IN  /\ last' = [op |-> "transform", obj |-> self, x |-> x, ok |-> r.ok,
                        out |-> IF r.ok THEN r.out ELSE <<>>,
                        calls |-> IF r.ok THEN r.calls ELSE <<>>]
            /\ UNCHANGED <<heap, lists, defaultOutput>>

\* The lists a caller hands to trace_prior_parent: a new empty one, or one
\* that already holds a leaf
OutputPool == { <<>> } \cup { <<q>> : q \in {r \in Ids : ~heap[r].composite} }

\* trace_prior_parent(prior, output) with a list of the caller's own
TraceGiven ==
    \E prior \in Ids, output \in OutputPool :
        /\ last' = [op |-> "trace", obj |-> prior, given |-> TRUE, output |-> output,
                    result |-> trace_prior_parent(heap, prior, output),
                    visits |-> TraceVisits(heap, prior, <<>>)]
        /\ UNCHANGED <<heap, lists, defaultOutput>>

\* trace_prior_parent(prior, []), as the tests call it
TraceIntoEmpty ==
    \E prior \in Ids :
        /\ last' = [op |-> "trace", obj |-> prior, given |-> TRUE, output |-> <<>>,
                    result |-> trace_prior_parent(heap, prior, <<>>),
                    visits |-> TraceVisits(heap, prior, <<>>)]
        /\ UNCHANGED <<heap, lists, defaultOutput>>

\* trace_prior_parent(prior): output is the default list object, created
\* once when the function was defined
TraceDefault ==
    \E prior \in Ids :
        LET result == trace_prior_parent(heap, prior, defaultOutput)
        IN  /\ Len(result) <= MaxOutput
            /\ defaultOutput' = result
            /\ last' = [op |-> "trace", obj |-> prior, given |-> FALSE,
                        output |-> defaultOutput, result |-> result,
                        visits |-> TraceVisits(heap, prior, <<>>)]
            /\ UNCHANGED <<heap, lists>>

(***************************************************************************)
(* Specifications                                                          *)
(***************************************************************************)
\* Sequential composites over a leaf, sampled and evaluated
NextSequential ==
    \/ NewLogisticDistribution(MaxPriorsSmall)
    \/ NewSequentialTransformPrior(MaxPriorsSmall)
    \/ NewUniformPrior(MaxPriorsSmall)
    \/ DoSample
    \/ DoLogProb

SpecSequential == Init /\ [][NextSequential]_vars

\* Every kind of prior, sampled: building blocks of up to MaxPriorsSmall
\* objects, and a CombinePrior over them
NextSample ==
    \/ NewLogisticDistribution(MaxPriorsSmall)
    \/ NewStandardNormalDistribution(MaxPriorsSmall)
    \/ NewLogisticSimplexDistribution(MaxPriorsSmall)
    \/ NewSequentialTransformPrior(MaxPriorsSmall)
    \/ NewCombinePrior(MaxPriors)
    \/ NewUniformPrior(MaxPriorsSmall)
    \/ DoSample

SpecSample == Init /\ [][NextSample]_vars

\* Combinations of leaves, sampled
NextCombine ==
    \/ NewLogisticDistribution(MaxPriors)
    \/ NewLogisticSimplexDistribution(MaxPriors)
    \/ NewCombinePrior(MaxPriors)
    \/ DoSample

SpecCombine == Init /\ [][NextCombine]_vars

\* Trees of leaves and CombinePrior on which log_prob is called
NextCombineLogProb ==
    \/ NewLogisticDistribution(MaxPriors)
    \/ NewStandardNormalDistribution(MaxPriors)
    \/ NewCombinePrior(MaxPriors)
    \/ DoLogProb

SpecCombineLogProb == Init /\ [][NextCombineLogProb]_vars

\* Trees of UniformPrior and CombinePrior traced into a list of the caller's
NextTraceGiven ==
    \/ NewCombinePrior(MaxPriorsTrace)
    \/ NewUniformPrior(MaxPriorsTrace)
    \/ TraceGiven

SpecTraceGiven == Init /\ [][NextTraceGiven]_vars

\* Trees traced, with and without the output argument
NextTrace ==
    \/ NewLogisticDistribution(MaxPriors)
    \/ NewCombinePrior(MaxPriors)
    \/ NewUniformPrior(MaxPriors)
    \/ TraceGiven
    \/ TraceDefault

SpecTrace == Init /\ [][NextTrace]_vars

\* Composites evaluated on the samples of their leaves
NextLeafSample ==
    \/ NewLogisticDistribution(MaxPriorsSmall)
    \/ NewSequentialTransformPrior(MaxPriors)
    \/ NewUniformPrior(MaxPriors)
    \/ DoLogProbOfLeafSample

SpecLeafSample == Init /\ [][NextLeafSample]_vars

\* UniformPrior and CombinePrior evaluated inside and outside their support
NextSupport ==
    \/ NewUniformPrior(MaxPriorsTrace)
    \/ NewCombinePrior(MaxPriorsTrace)
    \/ DoLogProbAt

SpecSupport == Init /\ [][NextSupport]_vars

\* PowerLawPrior and its subclass, evaluated
NextPowerLaw ==
    \/ NewPowerLawPrior(MaxPriors)
    \/ NewUniformInComponentsChirpMassPrior(MaxPriors)
    \/ DoLogProb

SpecPowerLaw == Init /\ [][NextPowerLaw]_vars

\* CosinePrior and SinePrior, sampled, evaluated and transformed
NextAngles ==
    \/ NewCosinePrior(MaxPriorsSine)
    \/ NewSinePrior(MaxPriorsSine)
    \/ DoSample
    \/ DoLogProb
    \/ DoTransform

SpecAngles == Init /\ [][NextAngles]_vars

\* A UniformSpherePrior, sampled, evaluated and traced
NextSphere ==
    \/ NewUniformSpherePrior(MaxPriorsSphere)
    \/ DoSample
    \/ DoLogProb
    \/ TraceGiven

SpecSphere == Init /\ [][NextSphere]_vars

\* The derived one-dimensional priors, constructed and traced
NextDerivedTrace ==
    \/ NewUniformPrior(MaxPriorsSine)
    \/ NewCosinePrior(MaxPriorsSine)
    \/ NewSinePrior(MaxPriorsSine)
    \/ NewPowerLawPrior(MaxPriorsSine)
    \/ TraceGiven

SpecDerivedTrace == Init /\ [][NextDerivedTrace]_vars

\* Every class of prior, constructed and traced
NextFlag ==
    \/ NewLogisticDistribution(MaxPriorsSmall)
    \/ NewStandardNormalDistribution(MaxPriorsSmall)
    \/ NewLogisticSimplexDistribution(MaxPriorsSmall)
    \/ NewSequentialTransformPrior(MaxPriorsSmall)
    \/ NewCombinePrior(MaxPriorsSmall)
    \/ NewUniformPrior(MaxPriorsSmall)
    \/ NewCosinePrior(MaxPriors)
    \/ NewSinePrior(MaxPriorsSine)
    \/ NewPowerLawPrior(MaxPriorsSmall)
    \/ NewUniformInComponentsChirpMassPrior(MaxPriorsSmall)
    \/ NewUniformSpherePrior(MaxPriorsSphere)
    \/ TraceGiven

SpecFlag == Init /\ [][NextFlag]_vars

\* Trees of CombinePrior over the derived priors, traced
NextDerivedTrees ==
    \/ NewUniformPrior(MaxPriorsSine)
    \/ NewCosinePrior(MaxPriors)
    \/ NewSinePrior(MaxPriorsSine)
    \/ NewPowerLawPrior(MaxPriorsSmall)
    \/ NewUniformInComponentsChirpMassPrior(MaxPriorsSmall)
    \/ NewUniformSpherePrior(MaxPriorsSphere)
    \/ NewCombinePrior(MaxPriorsTrace)
    \/ TraceIntoEmpty

SpecDerivedTrees == Init /\ [][NextDerivedTrees]_vars

\* Composites constructed over priors that exist
NextComposites ==
    \/ NewLogisticDistribution(MaxPriors)
    \/ NewLogisticSimplexDistribution(MaxPriors)
    \/ NewSequentialTransformPrior(MaxPriors)
    \/ NewCombinePrior(MaxPriors)

SpecComposites == Init /\ [][NextComposites]_vars

\* Trees of priors on which sample, log_prob and transform are called
NextFrame ==
    \/ NewLogisticDistribution(MaxPriorsSmall)
    \/ NewSequentialTransformPrior(MaxPriorsSmall)
    \/ NewUniformPrior(MaxPriorsSmall)
    \/ NewCombinePrior(MaxPriorsSmall)
    \/ DoSample
    \/ DoLogProb
    \/ DoTransform

SpecFrame == Init /\ [][NextFrame]_vars

\* The leaves and the derived priors, constructed
NextDerived ==
    \/ NewLogisticDistribution(MaxPriorsSmall)
    \/ NewStandardNormalDistribution(MaxPriorsSmall)
    \/ NewLogisticSimplexDistribution(MaxPriorsSmall)
    \/ NewUniformPriorAnyBounds(MaxPriors)
    \/ NewCosinePrior(MaxPriors)
    \/ NewSinePrior(MaxPriorsSine)
    \/ NewSimplexPrior(MaxPriors)
    \/ NewUniformSpherePrior(MaxPriorsSphere)
    \/ NewPowerLawPrior(MaxPriors)
    \/ NewUniformInComponentsChirpMassPrior(MaxPriors)

SpecDerived == Init /\ [][NextDerived]_vars

\* Every operation: building blocks of up to MaxPriorsSmall objects, and a
\* CombinePrior or a CosinePrior of up to MaxPriors
Next ==
    \/ NewLogisticDistribution(MaxPriorsSmall)
    \/ NewStandardNormalDistribution(MaxPriorsSmall)
    \/ NewLogisticSimplexDistribution(MaxPriorsSmall)
    \/ NewSequentialTransformPrior(MaxPriorsSmall)
    \/ NewCombinePrior(MaxPriors)
    \/ NewUniformPrior(MaxPriorsSmall)
    \/ NewCosinePrior(MaxPriors)
    \/ DoSample
    \/ DoLogProb
    \/ DoTransform
    \/ TraceGiven
    \/ TraceDefault

Spec == Init /\ [][Next]_vars

(***************************************************************************)
(* Properties                                                              *)
(***************************************************************************)
Names_(p) == NamesIn(heap, lists, p)

IsSequential(p) == heap[p].base_kind = "prior"

IsCombine(p) == heap[p].base_kind = "list"

RECURSIVE NamesAfter(_, _, _)
\* The names after the first k transforms of ts, defined from the last one
NamesAfter(ts, k, names) ==
    IF k = 0 THEN names ELSE propagate_name(ts[k], NamesAfter(ts, k - 1, names))

\* C1: the parameter_names of every SequentialTransformPrior are its base's
\* names after t1.propagate_name, then t2.propagate_name, ..., then
\* tk.propagate_name, in the declared order (the base's names when there is
\* no transform).
C1_NamesThreadedInOrder ==
    \A p \in Ids :
        IsSequential(p) =>
            Names_(p) = NamesAfter(heap[p].transforms, Len(heap[p].transforms),
                                   Names_(heap[p].base_prior[1]))

\* A Sequential with two transforms whose names would differ had the
\* transforms been threaded in the other order
C1_Witness ==
    \E p \in Ids :
        /\ IsSequential(p)
        /\ Len(heap[p].transforms) = 2
        /\ Names_(p) /= propagate_name(heap[p].transforms[1],
                            propagate_name(heap[p].transforms[2],
                                           Names_(heap[p].base_prior[1])))

\* Two sums with the same terms, whatever the order of the additions
SameSum(a, b) ==
    /\ Len(a) = Len(b)
    /\ \A i \in DOMAIN a :
           Cardinality({j \in DOMAIN a : a[j] = a[i]})
               = Cardinality({j \in DOMAIN b : b[j] = a[i]})

\* C2: a log_prob(z) that returns on a Sequential with transforms t1..tk
\* calls tk.inverse on z, then each earlier inverse on the mapping the
\* previous call returned, down to t1; then base_prior.log_prob, once, on
\* the mapping t1.inverse returned (on z when k = 0); and returns the sum of
\* the k log-Jacobians returned and of the base's log_prob.
C2_InverseInReverseOrder ==
    (last.op = "log_prob" /\ last.ok /\ IsSequential(last.obj)) =>
        LET ts    == heap[last.obj].transforms
            k     == Len(ts)
            base  == heap[last.obj].base_prior[1]
            calls == last.calls
            ret(j) == inverse(ts[calls[j].callee], calls[j].arg)
        IN  /\ Len(calls) = k + 1
            /\ \A j \in 1..k :
                   /\ calls[j].fn = "inverse"
                   /\ calls[j].callee = k + 1 - j
                   /\ calls[j].arg = IF j = 1 THEN last.z ELSE ret(j - 1).out
            /\ calls[k + 1].fn = "log_prob"
            /\ calls[k + 1].callee = base
            /\ calls[k + 1].arg = IF k = 0 THEN last.z ELSE ret(k).out
            /\ SameSum(last.out,
                       [j \in 1..k |-> ret(j).log_jacobian]
                           \o LogProb(heap, lists, base, calls[k + 1].arg).out)

\* log_prob has returned on a Sequential with at least two transforms
C2_Witness ==
    /\ last.op = "log_prob"
    /\ last.ok
    /\ IsSequential(last.obj)
    /\ Len(heap[last.obj].transforms) >= 2

\* C3: a sample(key, n) that returns on a Sequential with transforms t1..tk
\* first calls base_prior.sample(key, n) with the key and n it was given,
\* then t1.forward on the base's sample, then each later forward on what the
\* previous one returned, up to tk, each once, and returns what tk.forward
\* returned.
C3_ForwardInDeclaredOrder ==
    (last.op = "sample" /\ last.ok /\ IsSequential(last.obj)) =>
        LET ts    == heap[last.obj].transforms
            k     == Len(ts)
            base  == heap[last.obj].base_prior[1]
            calls == last.calls
            drawn == Sample(heap, lists, base, last.key, last.n).out
            ret(j) == forward(ts[calls[j].callee], calls[j].arg).out
        IN  /\ Len(calls) = k + 1
            /\ calls[1] = [fn |-> "sample", callee |-> base, arg |-> <<last.key, last.n>>]
            /\ \A i \in 1..k :
                   /\ calls[i + 1].fn = "forward"
                   /\ calls[i + 1].callee = i
                   /\ calls[i + 1].arg = IF i = 1 THEN drawn ELSE ret(i)
            /\ last.out = IF k = 0 THEN drawn ELSE ret(k + 1)

\* sample has returned a non-empty batch on a Sequential with at least two
\* transforms
C3_Witness ==
    /\ last.op = "sample"
    /\ last.ok
    /\ last.n >= 1
    /\ IsSequential(last.obj)
    /\ Len(heap[last.obj].transforms) >= 2

RECURSIVE Concat(_, _)
\* The concatenation of the first k lists of ss
Concat(ss, k) == IF k = 0 THEN <<>> ELSE Concat(ss, k - 1) \o ss[k]

ChildNames(p) == [i \in DOMAIN heap[p].base_prior |-> Names_(heap[p].base_prior[i])]

\* C4: the parameter_names of every CombinePrior hold no name twice and are
\* its children's name lists, concatenated in the order of the children.
C4_CombineNamesDisjoint ==
    \A p \in Ids :
        IsCombine(p) =>
            /\ NoDuplicates(Names_(p))
            /\ Names_(p) = Concat(ChildNames(p), Len(heap[p].base_prior))

\* Two of the priors declare the same parameter name
ShareAName(priors) ==
    \E i, j \in DOMAIN priors :
        i /= j /\ Range(Names_(priors[i])) \cap Range(Names_(priors[j])) /= {}

\* C5: constructing a CombinePrior from priors of which two declare the same
\* parameter name raises, and no CombinePrior is made.
C5_CombineRejectsSharedNames ==
    (last.op = "construct" /\ last.cls = "CombinePrior" /\ ShareAName(last.args[1]))
        => ~last.ok

\* C6: the mapping a sample call returns has a key for every name of the
\* prior's parameter_names and no other key.
C6_SampleKeysAreTheNames ==
    (last.op = "sample" /\ last.ok) => DOMAIN last.out = Range(Names_(last.obj))

\* sample has returned on a composite whose names are not its base's
C6_Witness ==
    /\ last.op = "sample"
    /\ last.ok
    /\ IsSequential(last.obj)
    /\ Names_(last.obj) /= Names_(heap[last.obj].base_prior[1])
    /\ DOMAIN last.out /= {}

\* C7: every array of the mapping sample(key, n) returns has length n.
C7_SampleArraysHaveLengthN ==
    (last.op = "sample" /\ last.ok) =>
        \A nm \in DOMAIN last.out : last.out[nm].src.len = last.n

\* C8: in one sample call, no two distinct leaves draw from the same key.
C8_LeavesDrawFromDistinctKeys ==
    (last.op = "sample" /\ last.ok) =>
        \A i, j \in DOMAIN last.draws :
            last.draws[i].leaf /= last.draws[j].leaf
                => last.draws[i].key /= last.draws[j].key

RECURSIVE Leaves(_)
RECURSIVE LeavesOfFirst(_, _)
\* The non-composite priors under p, depth first and left to right
Leaves(p) ==
    IF ~heap[p].composite THEN <<p>> ELSE LeavesOfFirst(heap[p].base_prior, Len(heap[p].base_prior))

\* The leaves under the first k priors of a list
LeavesOfFirst(priors, k) ==
    IF k = 0 THEN <<>> ELSE LeavesOfFirst(priors, k - 1) \o Leaves(priors[k])

\* C9: trace_prior_parent(prior, []) returns the non-composite leaves of the
\* tree, each once, depth first and left to right; for a CombinePrior of k
\* UniformPrior children these are k leaves, the i-th the leaf of the i-th
\* child.
C9_TraceReturnsLeavesInOrder ==
    (last.op = "trace" /\ last.given /\ last.output = <<>>) =>
        /\ last.result = Leaves(last.obj)
        /\ NoDuplicates(last.result)
        /\ \A i \in DOMAIN last.result : ~heap[last.result[i]].composite
        /\ (/\ IsCombine(last.obj)
            /\ \A i \in DOMAIN heap[last.obj].base_prior :
                   heap[heap[last.obj].base_prior[i]].cls = "UniformPrior")
               => /\ Len(last.result) = Len(heap[last.obj].base_prior)
                  /\ \A i \in DOMAIN last.result :
                         last.result[i] = heap[heap[last.obj].base_prior[i]].base_prior[1]

\* A CombinePrior of two UniformPrior children has been traced into an empty
\* list
C9_Witness ==
    /\ last.op = "trace"
    /\ last.given
    /\ last.output = <<>>
    /\ IsCombine(last.obj)
    /\ Len(heap[last.obj].base_prior) = 2
    /\ \A i \in 1..2 : heap[heap[last.obj].base_prior[i]].cls = "UniformPrior"
    /\ Len(last.result) = 2

\* C10: trace_prior_parent(p) with the output argument omitted returns the
\* leaves of p and nothing else, whatever calls came before.
C10_TraceDefaultReturnsOnlyLeaves ==
    (last.op = "trace" /\ ~last.given) => last.result = Leaves(last.obj)

\* The parameter_names argument of the last constructor call
NamesArg == last.args[Len(last.args)]

OneName ==
    {"LogisticDistribution", "StandardNormalDistribution", "UniformPrior", "SinePrior",
     "CosinePrior", "PowerLawPrior", "UniformSpherePrior"}

TwoNames == {"LogisticSimplexDistribution", "SimplexPrior"}

\* C11: constructing a fixed-arity prior raises when the number of names
\* given is not its arity: one for LogisticDistribution,
\* StandardNormalDistribution, UniformPrior, SinePrior, CosinePrior,
\* PowerLawPrior and UniformSpherePrior, two for LogisticSimplexDistribution
\* and SimplexPrior.
C11_WrongArityFails ==
    last.op = "construct" =>
        /\ (last.cls \in OneName /\ Len(NamesArg) /= 1) => ~last.ok
        /\ (last.cls \in TwoNames /\ Len(NamesArg) /= 2) => ~last.ok

\* A one-name prior has been refused two names, while priors exist
C11_Witness ==
    /\ last.op = "construct"
    /\ last.cls \in OneName
    /\ Len(NamesArg) = 2
    /\ ~last.ok
    /\ heap /= <<>>

PowerLawFamily == {"PowerLawPrior", "UniformInComponentsChirpMassPrior"}

\* C12: PowerLawPrior(xmin, xmax, alpha, names) and
\* UniformInComponentsChirpMassPrior(xmin, xmax) raise when xmin >= xmax or
\* xmin <= 0, whatever alpha, before any transform or base distribution is
\* built.
C12_PowerLawRejectsBadBounds ==
    (/\ last.op = "construct"
     /\ last.cls \in PowerLawFamily
     /\ (last.args[1] >= last.args[2] \/ last.args[1] <= 0))
        => (~last.ok /\ last.built = <<>>)

\* A PowerLawPrior with alpha = -1, one name and xmin = 0 has been refused
C12_Witness ==
    /\ last.op = "construct"
    /\ last.cls = "PowerLawPrior"
    /\ last.args[3] = -1
    /\ Len(NamesArg) = 1
    /\ last.args[1] = 0
    /\ last.args[1] < last.args[2]
    /\ ~last.ok

\* C13: UniformPrior(xmin, xmax, names) raises whenever xmin >= xmax.
C13_UniformRejectsBadBounds ==
    (last.op = "construct" /\ last.cls = "UniformPrior" /\ last.args[1] >= last.args[2])
        => ~last.ok

\* C14: SimplexPrior(names) with two distinct names returns a composite
\* whose base is a CombinePrior of two UniformPrior(0, 1) over the two names
\* and whose parameter_names are the two names.
C14_SimplexPriorConstructs ==
    (/\ last.op = "construct"
     /\ last.cls = "SimplexPrior"
     /\ Len(NamesArg) = 2
     /\ NamesArg[1] /= NamesArg[2])
        => /\ last.ok
           /\ heap[last.obj].composite
           /\ Names_(last.obj) = NamesArg
           /\ LET c == heap[last.obj].base_prior[1]
              IN  /\ heap[c].cls = "CombinePrior"
                  /\ Len(heap[c].base_prior) = 2
                  /\ \A i \in 1..2 :
                         /\ heap[heap[c].base_prior[i]].cls = "UniformPrior"
                         /\ heap[heap[c].base_prior[i]].attrs = <<0, 1>>
                         /\ Names_(heap[c].base_prior[i]) = <<NamesArg[i]>>

DerivedSequential == {"UniformPrior", "PowerLawPrior", "CosinePrior", "SinePrior"}

\* Every transform of p reads the names the stage before it wrote, the
\* first one the names of the base
ChainLinked(p) ==
    LET ts == heap[p].transforms
    IN  /\ ts /= <<>>
        /\ ts[1].name_mapping[1] = Names_(heap[p].base_prior[1])
        /\ \A i \in 1..(Len(ts) - 1) : ts[i + 1].name_mapping[1] = ts[i].name_mapping[2]

\* C15: a UniformPrior, PowerLawPrior, CosinePrior or SinePrior constructed
\* with [p] has parameter_names [p]: the input names of every transform of
\* its chain are the output names of the stage before, from the names of
\* the base on, and the last transform writes p.
C15_DerivedNamesEndAtP ==
    (last.op = "construct" /\ last.ok /\ last.cls \in DerivedSequential) =>
        /\ Len(NamesArg) = 1
        /\ Names_(last.obj) = NamesArg
        /\ ChainLinked(last.obj)
        /\ heap[last.obj].transforms[Len(heap[last.obj].transforms)].name_mapping[2] = NamesArg
        /\ \A q \in Ids : heap[q].cls \in DerivedSequential => ChainLinked(q)

\* A SinePrior has been constructed over a CosinePrior over a UniformPrior
C15_Witness ==
    /\ last.op = "construct"
    /\ last.ok
    /\ last.cls = "SinePrior"
    /\ heap[heap[last.obj].base_prior[1]].cls = "CosinePrior"

\* C17: a call of sample, log_prob or transform changes no prior's
\* parameter_names, composite flag, base_prior or transforms.
C17_CallsChangeNoField ==
    [][last'.op \in {"sample", "log_prob", "transform"} => (heap' = heap /\ lists' = lists)]_vars

\* log_prob has returned on a composite with several transforms, after
\* another call
C17_Witness ==
    /\ last.op = "log_prob"
    /\ last.ok
    /\ IsSequential(last.obj)
    /\ Len(heap[last.obj].transforms) >= 2
    /\ heap[last.obj].transforms /= Reversed(heap[last.obj].transforms)

RECURSIVE SumOfChildren(_, _, _)
\* The terms of the first k children's log_prob(z), child by child
SumOfChildren(children, k, z) ==
    IF k = 0 THEN <<>>
    ELSE SumOfChildren(children, k - 1, z) \o LogProb(heap, lists, children[k], z).out

\* C18: CombinePrior.log_prob(z) calls child.log_prob(z) on each child in
\* order, every child receiving the same mapping z, and returns the sum of
\* the children's values (0, the empty sum, when there is no child).
C18_CombineLogProbIsSumOfChildren ==
    (last.op = "log_prob" /\ last.ok /\ IsCombine(last.obj)) =>
        LET children == heap[last.obj].base_prior
        IN  /\ last.calls = [i \in DOMAIN children |->
                                [fn |-> "log_prob", callee |-> children[i], arg |-> last.z]]
            /\ last.out = SumOfChildren(children, Len(children), last.z)

\* log_prob has returned on a CombinePrior of two children of different
\* kinds, each contributing a term
C18_Witness ==
    /\ last.op = "log_prob"
    /\ last.ok
    /\ IsCombine(last.obj)
    /\ Len(heap[last.obj].base_prior) = 2
    /\ Len(last.out) = 2
    /\ last.out[1] /= last.out[2]

\* log_prob has returned 0 on a CombinePrior without children
C18_WitnessEmpty ==
    /\ last.op = "log_prob"
    /\ last.ok
    /\ IsCombine(last.obj)
    /\ heap[last.obj].base_prior = <<>>
    /\ last.out = <<>>

RECURSIVE Nodes(_)
\* The prior p and every prior under it
Nodes(p) ==
    {p} \cup UNION {Nodes(heap[p].base_prior[i]) : i \in DOMAIN heap[p].base_prior}

\* C19: trace_prior_parent returns on every finite tree of priors, and the
\* calls it made (the caller's and the recursive ones) are one per prior of
\* the tree: every node is visited, none twice.
C19_TraceVisitsEachNodeOnce ==
    last.op = "trace" =>
        /\ Range(last.visits) = Nodes(last.obj)
        /\ NoDuplicates(last.visits)
        /\ Len(last.visits) = Cardinality(Nodes(last.obj))

\* A tree of five priors, a CombinePrior of two UniformPrior, has been traced
C19_Witness ==
    /\ last.op = "trace"
    /\ IsCombine(last.obj)
    /\ Len(heap[last.obj].base_prior) = 2
    /\ Cardinality(Nodes(last.obj)) = 5
    /\ Len(last.visits) = 5

\* What is known of a term of a log-density for every argument:
\*   "zero"          the log-Jacobian of an Offset,
\*   "minus_log_abs" the log-Jacobian -log|s| of the inverse of a Scale by s,
\*   "negative"      log(sigmoid(y)) + log(1 - sigmoid(y)), the log-Jacobian
\*                   of the inverse of a Logit, and -x - 2*log(1 + exp(-x)),
\*                   the Logistic log-density: both are at most -log(4),
\*   "other"         anything else.
TermClass(t) ==
    CASE t.f = "log_jacobian" /\ t.of.cls = "OffsetTransform" -> "zero"
      [] t.f = "log_jacobian" /\ t.of.cls = "ScaleTransform" -> "minus_log_abs"
      [] t.f = "log_jacobian" /\ t.of.cls = "LogitTransform" /\ t.of.dir = "inverse" -> "negative"
      [] t.f = "-x-2*log(1+exp(-x))" -> "negative"
      [] OTHER -> "other"

\* The terms of a sum that are not known to vanish
NonZeroTerms(out) == SelectSeq(out, LAMBDA t : TermClass(t) /= "zero")

\* The sum of the terms is -log(s) for every argument: apart from terms that
\* vanish, it is the single term -log|s|. (A sum of -log|s| and terms that
\* are negative for every argument is below -log(s).)
SumIsMinusLog(out, s) ==
    /\ s > 0
    /\ Len(NonZeroTerms(out)) = 1
    /\ TermClass(NonZeroTerms(out)[1]) = "minus_log_abs"
    /\ NonZeroTerms(out)[1].of.params = <<s>>

\* C20: log_prob of a UniformPrior(xmin, xmax, [p]) on a mapping keyed by p
\* returns -log(xmax - xmin), whatever the value inside the support.
C20_UniformLogProbIsConstant ==
    (/\ last.op = "log_prob"
     /\ heap[last.obj].cls = "UniformPrior"
     /\ DOMAIN last.z = Range(Names_(last.obj)))
        => /\ last.ok
           /\ SumIsMinusLog(last.out, heap[last.obj].attrs[2] - heap[last.obj].attrs[1])

\* C21: log_prob of a UniformPrior on the sample of its leaf (keyed by the
\* leaf's name, not by the prior's own) evaluates without error and returns
\* log(1/(xmax - xmin)) = -log(xmax - xmin).
C21_UniformLogProbOfLeafSample ==
    (/\ last.op = "log_prob"
     /\ "of_leaf" \in DOMAIN last
     /\ heap[last.obj].cls = "UniformPrior")
        => /\ last.ok
           /\ SumIsMinusLog(last.out, heap[last.obj].attrs[2] - heap[last.obj].attrs[1])

RECURSIVE InSupport(_, _)
\* The point lies in the support of a UniformPrior, or of every child of a
\* CombinePrior
InSupport(p, point) ==
    IF heap[p].cls = "UniformPrior"
    THEN /\ heap[p].attrs[1] <= point[Names_(p)[1]]
         /\ point[Names_(p)[1]] <= heap[p].attrs[2]
    ELSE \A i \in DOMAIN heap[p].base_prior : InSupport(heap[p].base_prior[i], point)

RECURSIVE OfUniforms(_)
\* p is a UniformPrior or a CombinePrior over such priors
OfUniforms(p) ==
    \/ heap[p].cls = "UniformPrior"
    \/ /\ IsCombine(p)
       /\ \A i \in DOMAIN heap[p].base_prior : OfUniforms(heap[p].base_prior[i])

\* Every term of the sum is finite at every finite argument: 0, -log|s| for
\* s /= 0, the log-Jacobian of the sigmoid and the Logistic log-density
FiniteEverywhere(out) ==
    \A i \in DOMAIN out :
        \/ TermClass(out[i]) \in {"zero", "negative"}
        \/ TermClass(out[i]) = "minus_log_abs" /\ out[i].of.params /= <<0>>

\* The sum of the terms is 0 for every argument: every term vanishes, apart
\* from terms -log|1|
SumIsZero(out) ==
    \A i \in DOMAIN out :
        \/ TermClass(out[i]) = "zero"
        \/ TermClass(out[i]) = "minus_log_abs" /\ out[i].of.params \in {<<1>>, <<-1>>}

\* C22: log_prob at a point outside the support does not raise and returns
\* -infinity; for a CombinePrior of two UniformPrior(0, 1) of different names
\* it is 0 when both coordinates lie in [0, 1] and -infinity otherwise.
C22_OutsideSupportIsMinusInfinity ==
    (/\ last.op = "log_prob"
     /\ "point" \in DOMAIN last
     /\ OfUniforms(last.obj)
     /\ Range(Names_(last.obj)) \subseteq DOMAIN last.point)
        => /\ ~InSupport(last.obj, last.point)
                => (last.ok /\ ~FiniteEverywhere(last.out))
           /\ (/\ InSupport(last.obj, last.point)
               /\ IsCombine(last.obj)
               /\ Len(heap[last.obj].base_prior) = 2
               /\ NoDuplicates(Names_(last.obj))
               /\ \A i \in 1..2 : heap[heap[last.obj].base_prior[i]].attrs = <<0, 1>>)
                => (last.ok /\ SumIsZero(last.out))

\* The term is log(normalization) + alpha*log(y) at y, as the log-Jacobian
\* of the inverse of the PowerLaw transform of these parameters gives it,
\* or for alpha = -1 the one of the Pareto transform,
\* -log(y) - log(log(xmax/xmin)), at y
IsPowerLawDensity(t, xmin, xmax, alpha, y) ==
    /\ t.f = "log_jacobian"
    /\ t.of.dir = "inverse"
    /\ t.at = <<y>>
    /\ IF alpha = -1
       THEN t.of.cls = "ParetoTransform" /\ t.of.params = <<xmin, xmax>>
       ELSE t.of.cls = "PowerLawTransform" /\ t.of.params = <<xmin, xmax, alpha>>

\* C23: log_prob of a PowerLawPrior(xmin, xmax, alpha, [p]) at x is
\* log(normalization) + alpha*log(x), with the normalization of the
\* power law, or of the log-uniform density when alpha = -1.
C23_PowerLawLogProbIsClosedForm ==
    (/\ last.op = "log_prob"
     /\ heap[last.obj].cls \in PowerLawFamily
     /\ DOMAIN last.z = Range(Names_(last.obj)))
        => /\ last.ok
           /\ Len(NonZeroTerms(last.out)) = 1
           /\ IsPowerLawDensity(NonZeroTerms(last.out)[1], heap[last.obj].attrs[1],
                                heap[last.obj].attrs[2], heap[last.obj].attrs[3],
                                last.z[Names_(last.obj)[1]])

\* The term is log|cos(y)|, the log-Jacobian of the inverse (sin) of an
\* ArcSine transform at y
IsLogAbsCos(t, y) ==
    /\ t.f = "log_jacobian"
    /\ t.of.cls = "ArcSineTransform"
    /\ t.of.dir = "inverse"
    /\ t.at = <<y>>

\* The sum of the terms is log(cos(y)/2) = log|cos(y)| - log(2) where
\* cos(y) >= 0: apart from terms that vanish, it is these two
SumIsLogHalfCos(out, y) ==
    /\ Len(NonZeroTerms(out)) = 2
    /\ \E i, j \in 1..2 :
           /\ IsLogAbsCos(NonZeroTerms(out)[i], y)
           /\ TermClass(NonZeroTerms(out)[j]) = "minus_log_abs"
           /\ NonZeroTerms(out)[j].of.params = <<2>>

\* C24: log_prob at x is log(cos(x)/2) for a CosinePrior and log(sin(x)/2),
\* which is log(cos(x - pi/2)/2), for a SinePrior.
C24_SineCosineLogProb ==
    (/\ last.op = "log_prob"
     /\ heap[last.obj].cls \in {"CosinePrior", "SinePrior"}
     /\ DOMAIN last.z = Range(Names_(last.obj)))
        => /\ last.ok
           /\ LET x == last.z[Names_(last.obj)[1]]
              IN  IF heap[last.obj].cls = "CosinePrior"
                  THEN SumIsLogHalfCos(last.out, x)
                  ELSE SumIsLogHalfCos(last.out,
                           Apply(OpTag(OffsetTransform(<<>>, <<>>, HalfPi), "inverse"), x))

\* The alpha and the name a constructor call of the power-law family was
\* given: UniformInComponentsChirpMassPrior passes 1.0 and "M_c"
GivenAlpha == IF last.cls = "PowerLawPrior" THEN last.args[3] ELSE 1

GivenName == IF last.cls = "PowerLawPrior" THEN last.args[4][1] ELSE "M_c"

\* C25: a PowerLawPrior is a chain of exactly two transforms over a
\* LogisticDistribution: a LogitTransform, then a ParetoTransform if and only
\* if alpha == -1.0 and otherwise a PowerLawTransform carrying alpha; the
\* second carries the given xmin and xmax and maps <p>_before_transform to p.
C25_PowerLawChain ==
    (last.op = "construct" /\ last.cls \in PowerLawFamily /\ last.ok) =>
        LET o  == heap[last.obj]
            ts == o.transforms
        IN  /\ IsSequential(last.obj)
            /\ heap[o.base_prior[1]].cls = "LogisticDistribution"
            /\ Len(ts) = 2
            /\ ts[1].cls = "LogitTransform"
            /\ ts[2].cls \in {"ParetoTransform", "PowerLawTransform"}
            /\ ts[2].cls = "ParetoTransform" <=> GivenAlpha = -1
            /\ ts[2].cls = "ParetoTransform" => ts[2].params = <<last.args[1], last.args[2]>>
            /\ ts[2].cls = "PowerLawTransform"
                   => ts[2].params = <<last.args[1], last.args[2], GivenAlpha>>
            /\ ts[2].name_mapping = << <<GivenName \o "_before_transform">>, <<GivenName>> >>

\* A PowerLawPrior has been constructed with alpha = -1
C25_Witness ==
    /\ last.op = "construct"
    /\ last.cls = "PowerLawPrior"
    /\ last.ok
    /\ last.args[3] = -1
    /\ heap[last.obj].transforms[2].cls = "ParetoTransform"

\* p is the CombinePrior that UniformSpherePrior([v]) builds
SphereOf(p, v) ==
    LET children == heap[p].base_prior
    IN  /\ IsCombine(p)
        /\ Names_(p) = <<v \o "_mag", v \o "_theta", v \o "_phi">>
        /\ Len(children) = 3
        /\ heap[children[1]].cls = "UniformPrior"
        /\ heap[children[1]].attrs = <<0, 1>>
        /\ Names_(children[1]) = <<v \o "_mag">>
        /\ heap[children[2]].cls = "SinePrior"
        /\ Names_(children[2]) = <<v \o "_theta">>
        /\ heap[children[3]].cls = "UniformPrior"
        /\ heap[children[3]].attrs = <<0, TwoPi>>
        /\ Names_(children[3]) = <<v \o "_phi">>

IsSphere(p) == heap[p].cls = "UniformSpherePrior"

\* C26: UniformSpherePrior([v]) has the names v_mag, v_theta, v_phi in that
\* order and the children UniformPrior(0, 1) named v_mag, SinePrior named
\* v_theta and UniformPrior(0, 2*pi) named v_phi, in that order; its sample
\* has exactly these three keys, and trace_prior_parent(p, []) returns
\* exactly three leaves.
C26_UniformSphereStructure ==
    /\ (last.op = "construct" /\ last.cls = "UniformSpherePrior" /\ last.ok)
           => SphereOf(last.obj, last.args[1][1])
    /\ \A p \in Ids : IsSphere(p) => \E v \in Names : SphereOf(p, v)
    /\ (last.op = "sample" /\ IsSphere(last.obj))
           => /\ last.ok
              /\ DOMAIN last.out = Range(Names_(last.obj))
              /\ Cardinality(DOMAIN last.out) = 3
    /\ (last.op = "trace" /\ IsSphere(last.obj) /\ last.given /\ last.output = <<>>)
           => /\ Len(last.result) = 3
              /\ NoDuplicates(last.result)
              /\ \A i \in 1..3 : ~heap[last.result[i]].composite

\* A UniformSpherePrior has been sampled
C26_Witness ==
    /\ last.op = "sample"
    /\ IsSphere(last.obj)
    /\ last.ok
    /\ last.n > 0
    /\ DOMAIN last.out = {"x_mag", "x_theta", "x_phi"}

\* A UniformSpherePrior has been traced into an empty list
C26_WitnessTrace ==
    /\ last.op = "trace"
    /\ IsSphere(last.obj)
    /\ last.given
    /\ last.output = <<>>
    /\ Len(last.result) = 3

\* The name of the leaf under a derived one-dimensional prior of class cls
\* named p
LeafName(cls, p) ==
    CASE cls \in {"UniformPrior", "PowerLawPrior"} -> p \o "_base"
      [] cls = "CosinePrior" -> "sin(" \o p \o ")_base"
      [] cls = "SinePrior" -> "sin(" \o p \o "-pi/2)_base"

\* C27: trace_prior_parent(prior, []) of a derived one-dimensional prior
\* named p returns exactly one leaf, a LogisticDistribution named <p>_base
\* for UniformPrior and PowerLawPrior, sin(<p>)_base for CosinePrior and
\* sin(<p>-pi/2)_base for SinePrior; under a SinePrior it is reached through
\* SinePrior -> CosinePrior -> UniformPrior -> LogisticDistribution.
C27_DerivedLeafNames ==
    (/\ last.op = "trace"
     /\ last.given
     /\ last.output = <<>>
     /\ heap[last.obj].cls \in {"UniformPrior", "PowerLawPrior", "CosinePrior", "SinePrior"})
        => /\ Len(last.result) = 1
           /\ heap[last.result[1]].cls = "LogisticDistribution"
           /\ Names_(last.result[1]) = <<LeafName(heap[last.obj].cls, Names_(last.obj)[1])>>
           /\ heap[last.obj].cls = "SinePrior"
                  => LET c == heap[last.obj].base_prior[1]
                         u == heap[c].base_prior[1]
                     IN  /\ heap[c].cls = "CosinePrior"
                         /\ heap[u].cls = "UniformPrior"
                         /\ heap[u].base_prior = <<last.result[1]>>

\* A SinePrior has been traced into an empty list
C27_Witness ==
    /\ last.op = "trace"
    /\ last.given
    /\ last.output = <<>>
    /\ heap[last.obj].cls = "SinePrior"
    /\ Len(last.result) = 1
    /\ Names_(last.result[1]) = <<"sin(x-pi/2)_base">>

LeafClasses ==
    {"LogisticDistribution", "StandardNormalDistribution", "LogisticSimplexDistribution"}

\* The priors trace_prior_parent appended to the list it was given
Appended == SubSeq(last.result, Len(last.output) + 1, Len(last.result))

\* C28: composite is True exactly for the SequentialTransformPrior and
\* CombinePrior objects (derived ones included), which hold a base_prior,
\* and False exactly for the three leaf distributions; trace_prior_parent
\* appends no composite, appends every leaf it visits, and descends only
\* from priors that hold a base_prior.
C28_CompositeFlag ==
    /\ \A p \in Ids :
           /\ heap[p].composite <=> (IsSequential(p) \/ IsCombine(p))
           /\ ~heap[p].composite <=> heap[p].cls \in LeafClasses
    /\ last.op = "trace" =>
           /\ \A i \in DOMAIN Appended : ~heap[Appended[i]].composite
           /\ Appended = SelectSeq(last.visits, LAMBDA v : ~heap[v].composite)
           /\ \A i \in DOMAIN last.visits :
                  heap[last.visits[i]].base_prior /= <<>> => heap[last.visits[i]].composite

\* A SinePrior has been traced: three composites visited, one leaf appended
C28_Witness ==
    /\ last.op = "trace"
    /\ heap[last.obj].cls = "SinePrior"
    /\ Len(last.visits) = 4
    /\ Len(Appended) = 1

RECURSIVE SumOfNDim(_, _)
\* The sum of n_dim over the first k priors of a list
SumOfNDim(priors, k) ==
    IF k = 0 THEN 0 ELSE SumOfNDim(priors, k - 1) + n_dim(heap, lists, priors[k])

\* C29: for a tree of CombinePrior and derived priors, the n_dim of the
\* leaves that trace_prior_parent(prior, []) returns add up to the n_dim of
\* the prior.
C29_LeafDimensionsAddUp ==
    (last.op = "trace" /\ last.given /\ last.output = <<>>)
        => SumOfNDim(last.result, Len(last.result)) = n_dim(heap, lists, last.obj)

\* A CombinePrior of two derived priors has been traced into an empty list
C29_Witness ==
    /\ last.op = "trace"
    /\ last.given
    /\ last.output = <<>>
    /\ IsCombine(last.obj)
    /\ Len(heap[last.obj].base_prior) = 2
    /\ Len(last.result) = 2
    /\ n_dim(heap, lists, last.obj) = 2

\* C30: constructing a CombinePrior or a SequentialTransformPrior changes
\* no prior that existed before, its children among them: every field is
\* as it was, and the parameter_names list holds the same names in the same
\* order.
C30_ConstructionLeavesChildrenUnchanged ==
    [][(last'.op = "construct" /\ last'.cls \in {"CombinePrior", "SequentialTransformPrior"})
          => \A p \in DOMAIN heap :
                 /\ p \in DOMAIN heap'
                 /\ heap'[p] = heap[p]
                 /\ lists'[heap[p].parameter_names] = lists[heap[p].parameter_names]]_vars

\* A CombinePrior has been built over two children that have names, its
\* own list being the concatenation
C30_Witness ==
    /\ last.op = "construct"
    /\ last.cls = "CombinePrior"
    /\ last.ok
    /\ Len(heap[last.obj].base_prior) = 2
    /\ \A i \in 1..2 : Names_(heap[last.obj].base_prior[i]) /= <<>>
    /\ Names_(last.obj) =
           Names_(heap[last.obj].base_prior[1]) \o Names_(heap[last.obj].base_prior[2])

\* A SequentialTransformPrior without transforms has been built: its
\* parameter_names is the list object of its base
C30_WitnessAlias ==
    /\ last.op = "construct"
    /\ last.cls = "SequentialTransformPrior"
    /\ last.ok
    /\ heap[last.obj].parameter_names = heap[heap[last.obj].base_prior[1]].parameter_names

====
